---- MODULE Spec2Model ----
(***************************************************************************)
(* Model of dqm_server/queue_handlers/dask_handler.py: the DaskNanny queue *)
(* (add_future / update) and the DaskScheduler and FireworksScheduler      *)
(* request handlers (post / get) that share one nanny and one store.       *)
(*                                                                         *)
(* Python strings are modelled as sequences of tokens, so that formatting  *)
(* a message is concatenation and "the same text" is sequence equality.    *)
(***************************************************************************)
EXTENDS Integers, Sequences, FiniteSets, TLC

\* ------------------------------------------------------------------ bounds
MaxFutures == 2     \* handles ever created by the backends
MaxBatch == 2       \* items in one submit request

\* ------------------------------------------------------------ input values
Projects == {"ns1", "ns2"}
Programs == {"psi4", "nosuchprogram"}
Tasks == { [molecule_hash |-> "ref1", modelchem |-> "methodA"] }
ErrorMarkers == { [internal_error |-> <<"unknown reference: bad-ref">>] }
Items == Tasks \cup ErrorMarkers
Diagnostics == { <<"solver diverged">> }
StoreAnswers == {"True", "False", "raise", "raise_other"}
Headers == [auth : BOOLEAN, project : Projects]

RECURSIVE SeqsUpTo(_, _)
SeqsUpTo(S, n) ==
    IF n = 0 THEN { <<>> }
    ELSE LET shorter == SeqsUpTo(S, n - 1)
         IN  shorter \cup { Append(s, x) : s \in { t \in shorter : Len(t) = n - 1 }, x \in S }

\* A second error marker, met only in batches that hold the first one too,
\* so that the order of two messages can be told.
SecondMarker == [internal_error |-> <<"unknown method: bad-method">>]
IsSecondMarker(t) ==
    "internal_error" \in DOMAIN t /\ t.internal_error = SecondMarker.internal_error
TwoMarkerBatches ==
    { b \in UNION { [1..n -> Items \cup {SecondMarker}] : n \in 2..MaxBatch } :
         /\ \E i \in 1..Len(b) : IsSecondMarker(b[i])
         /\ \E i \in 1..Len(b) : b[i] \in ErrorMarkers }

Batches == (SeqsUpTo(Items, MaxBatch) \ { <<>> }) \cup TwoMarkerBatches

NoValue == [none |-> TRUE]
NoResponse == [none |-> TRUE]

\* -------------------------------------------------------------------- state
VARIABLES
    queue,      \* DaskNanny.queue: insertion-ordered dict, a sequence of [uid, h]
    errors,     \* DaskNanny.errors: function TrackingID -> message
    futures,    \* the handles the backends have created, by handle index
    nuid,       \* number of uuid4 draws made so far
    project,    \* the store's active namespace (mongod_socket.set_project)
    op,         \* the operation that ran last
    fault,      \* the exception that escaped it, "none" when it returned
    calls,      \* the calls it made on its collaborators, in order
    before,     \* DaskNanny.queue as it was when it started
    response,   \* what it wrote back (self.write), NoResponse when nothing
    handle_of,  \* every TrackingID add_future has returned, with its handle
    consumed,   \* the TrackingIDs whose outcome update has retrieved
    pass        \* the update pass under way: its place in the loop and del_keys

vars == <<queue, errors, futures, nuid, project, op, fault, calls, before, response,
          handle_of, consumed, pass>>

\* ------------------------------------------------------------ dict helpers
HasKey(d, k) == k \in DOMAIN d
Keys(q) == { q[i].uid : i \in 1..Len(q) }
Put(d, k, v) == [x \in (DOMAIN d) \cup {k} |-> IF x = k THEN v ELSE d[x]]
Call(fn, uid, arg, res) == [fn |-> fn, uid |-> uid, arg |-> arg, res |-> res]
CallsFor(cs, fn, uid) == { j \in 1..Len(cs) : cs[j].fn = fn /\ cs[j].uid = uid }
CallsOf(cs, fn) == { j \in 1..Len(cs) : cs[j].fn = fn }

\* handle_of after the add_future calls of cs: each adds uid -> handle.
RECURSIVE Tracked(_, _)
Tracked(m, cs) ==
    IF cs = <<>> THEN m
    ELSE Tracked(IF Head(cs).fn = "add_future" THEN Put(m, Head(cs).uid, Head(cs).arg) ELSE m,
                 Tail(cs))

\* ----------------------------------------------------------------- handles
\* A dask Future: done() is status /= "pending"; result() returns the value
\* of a "finished" future and re-raises the exception of an "error" one.
DaskFuture(task, ns) ==
    [kind |-> "dask", task |-> task, ns |-> ns, status |-> "pending", value |-> NoValue]
\* What FireworksScheduler.post registers: the integer launch id, an int.
FwsId(task, ns) ==
    [kind |-> "fws_id", task |-> task, ns |-> ns, status |-> "pending", value |-> NoValue]

SuccessRecord(t) ==
    [success |-> TRUE, molecule_hash |-> t.molecule_hash, modelchem |-> t.modelchem]
FailureRecord(t, m) ==
    [success |-> FALSE, molecule_hash |-> t.molecule_hash, modelchem |-> t.modelchem,
     error |-> m]
MalformedRecord(t) ==
    [molecule_hash |-> t.molecule_hash, modelchem |-> t.modelchem]
RaisedError(m) == [type |-> "RuntimeError", str |-> m]

Outcomes(t) ==
    { [status |-> "finished", value |-> SuccessRecord(t)],
      [status |-> "finished", value |-> MalformedRecord(t)] }
    \cup { [status |-> "finished", value |-> FailureRecord(t, m)] : m \in Diagnostics }
    \cup { [status |-> "error", value |-> RaisedError(m)] : m \in Diagnostics }

\* --------------------------------------------------------- DaskNanny.update
NoException == [none |-> TRUE]
Exception(type, str, line) == [type |-> type, str |-> str, line |-> line]

\* traceback.format_tb(e.__traceback__): the frame of update the fault passed.
format_tb(e) == << "  File dask_handler.py, in update, line ", e.line, "\n" >>

\* A message that is the fault's own text, with no traceback and no type name.
ErrorMessage_bare(e) == e.str

\* Lines 39-42: msg = "".join(format_tb(..)) + type(e).__name__ + ":" + str(e)
ErrorMessage(e) == format_tb(e) \o << e.type, ":" >> \o e.str

\* Lines 32-33: the text of the ValueError raised for an unsuccessful record.
ComputationError(tmp_data) ==
    << "Computation (", tmp_data.molecule_hash, ", ", tmp_data.modelchem,
       ") did not complete successfully!:\n" >> \o tmp_data.error \o << "\n" >>

\* A done() that answers True for every future.
done_always(future) == TRUE

\* Line 28: future.done() of a dask Future.
done(future) == future.status # "pending"

\* Line 30: future.result() of a done dask Future, the value or the re-raised fault.
result(future) ==
    IF future.status = "error"
    THEN [raised |-> Exception(future.value.type, future.value.str, "30"), value |-> NoValue]
    ELSE [raised |-> NoException, value |-> future.value]

\* Line 35: mongod_socket.add_page(tmp_data), answered by the store: True,
\* False, or one of two exceptions that differ in their text.
add_page(answer) ==
    IF answer = "raise"
    THEN [raised |-> Exception("PyMongoError", << "store unreachable" >>, "35"), res |-> "none"]
    ELSE IF answer = "raise_other"
    THEN [raised |-> Exception("PyMongoError", << "store timed out" >>, "35"), res |-> "none"]
    ELSE [raised |-> NoException, res |-> answer]

\* Lines 29-43: the try block for one done future. Yields the exception the
\* except clause caught (NoException when none) and the calls made.
TryBlock(key, future, answer, ns) ==
    LET r == result(future)
        c1 == << Call("result", key, NoValue,
                      IF r.raised = NoException THEN "value" ELSE "raise") >>
    IN  IF r.raised # NoException
        THEN [caught |-> r.raised, calls |-> c1]
        ELSE LET tmp_data == r.value
             IN  IF ~HasKey(tmp_data, "success")
                 THEN [caught |-> Exception("KeyError", << "'success'" >>, "31"), calls |-> c1]
                 ELSE IF ~tmp_data.success
                 THEN [caught |-> Exception("ValueError", ComputationError(tmp_data), "32"),
                       calls |-> c1]
                 ELSE LET a == add_page(answer)
                      IN  [caught |-> a.raised,
                           calls |-> Append(c1, Call("add_page", key,
                                                     [data |-> tmp_data, ns |-> ns],
                                                     IF a.raised = NoException
                                                     THEN a.res ELSE "raise"))]

\* A deletion loop that empties the queue once a key is to be deleted.
DeleteKeys_all(q, del_keys) == IF del_keys = <<>> THEN q ELSE <<>>

\* A deletion loop that deletes nothing.
DeleteKeys_none(q, del_keys) == q

\* Lines 47-48: del self.queue[key] for every key of del_keys.
DeleteKeys(q, del_keys) ==
    SelectSeq(q, LAMBDA e : \A j \in 1..Len(del_keys) : del_keys[j] # e.uid)

\* Lines 26-45: the loop over self.queue.items(), from item i on. st carries
\* errors, del_keys, the calls made and the fault that escaped ("none" if none).
RECURSIVE UpdateLoop(_, _, _, _, _, _)
UpdateLoop(q, futs, ns, answers, i, st) ==
    IF i > Len(q) \/ st.fault # "none" THEN st
    ELSE LET key == q[i].uid
             future == futs[q[i].h]
         IN  IF future.kind # "dask"
             \* an int has no attribute done: raised outside the try block
             THEN [st EXCEPT !.fault = "AttributeError",
                             !.calls = Append(@, Call("done", key, NoValue, "raise"))]
             ELSE IF ~done(future)
             THEN UpdateLoop(q, futs, ns, answers, i + 1,
                             [st EXCEPT !.calls = Append(@, Call("done", key, NoValue, "False"))])
             ELSE LET t == TryBlock(key, future, answers[i], ns)
                  IN  UpdateLoop(q, futs, ns, answers, i + 1,
                         [errors |-> IF t.caught # NoException
                                     THEN Put(st.errors, key, ErrorMessage(t.caught))
                                     ELSE st.errors,
                          del_keys |-> Append(st.del_keys, key),
                          calls |-> Append(st.calls, Call("done", key, NoValue, "True"))
                                    \o t.calls,
                          fault |-> "none"])

\* DaskNanny.update, whole: the loop, then the deletions unless a fault escaped.
update(q, errs, futs, ns, answers) ==
    LET st == UpdateLoop(q, futs, ns, answers, 1,
                         [errors |-> errs, del_keys |-> <<>>, calls |-> <<>>, fault |-> "none"])
    IN  [queue |-> IF st.fault = "none" THEN DeleteKeys(q, st.del_keys) ELSE q,
         errors |-> st.errors, calls |-> st.calls, fault |-> st.fault]

\* The entries whose pass reaches add_page: done, with a success record.
AsksStore(q, futs, i) ==
    LET future == futs[q[i].h]
    IN  /\ future.kind = "dask"
        /\ future.status = "finished"
        /\ HasKey(future.value, "success")
        /\ future.value.success

\* The store's answers are drawn for the entries that ask it; "True" elsewhere.
\* The second exception is drawn only for a record the store was asked to add
\* before, where a text other than the first time's can show.
Update ==
    \E answers \in [1..Len(queue) -> StoreAnswers] :
        /\ \A i \in 1..Len(queue) :
              /\ ~AsksStore(queue, futures, i) => answers[i] = "True"
              /\ answers[i] = "raise_other" => queue[i].uid \in consumed
        /\ \E u \in { update(queue, errors, futures, project, answers) } :
               /\ queue' = u.queue
               /\ errors' = u.errors
               /\ calls' = u.calls
               /\ fault' = u.fault
               /\ op' = "update"
               /\ before' = queue
               /\ response' = NoResponse
               /\ consumed' = consumed \cup { u.calls[j].uid : j \in CallsOf(u.calls, "result") }
               /\ UNCHANGED <<futures, nuid, project, handle_of, pass>>

\* No update pass is under way.
Idle == [pc |-> "idle", i |-> 0, used |-> 0, del_keys |-> <<>>]

\* ------------------------------------------------------------- the backend
\* A pending dask future completes with one of the outcomes of its task.
Complete ==
    \E h \in 1..Len(futures) :
        /\ futures[h].kind = "dask"
        /\ futures[h].status = "pending"
        /\ \E o \in Outcomes(futures[h].task) :
              futures' = [futures EXCEPT ![h].status = o.status, ![h].value = o.value]
        /\ op' = "complete"
        /\ fault' = "none"
        /\ calls' = <<>>
        /\ before' = queue
        /\ response' = NoResponse
        /\ UNCHANGED <<queue, errors, nuid, project, handle_of, consumed, pass>>

\* ------------------------------------------------------ DaskNanny.add_future
\* Lines 19-23: uid = str(uuid.uuid4()); self.queue[uid] = future.
\* uuid4 is taken to be fresh: the uid is the number of the draw.
\* A uuid4 that returns the same value at every draw.
uuid4_fixed(n) == 1

uuid4(n) == n + 1

\* self.queue[uid] = future is a dict assignment: it replaces the handle of a
\* uid that is a key already, and adds the entry at the end otherwise.
add_future(q, n, h) ==
    LET uid == uuid4(n)
    IN  [queue |-> IF uid \in Keys(q)
                   THEN [i \in 1..Len(q) |->
                            IF q[i].uid = uid THEN [uid |-> uid, h |-> h] ELSE q[i]]
                   ELSE Append(q, [uid |-> uid, h |-> h]),
         uid |-> uid]

\* ------------------------------------------------------------ collaborators
\* _check_auth(objects, headers): its result is never read by the handlers, so
\* a refusal is an exception raised out of the handler (an HTTP 401).
check_auth(header) == header.auth

\* compute.computers: the programs a dask worker can run.
computers == {"psi4"}

\* A test that takes no item for an error marker.
IsErrorMarker_never(task) == FALSE

\* Lines 82 and 138: "internal_error" in list(task).
IsErrorMarker(task) == HasKey(task, "internal_error")
NTasks(tasks) == Cardinality({ i \in 1..Len(tasks) : ~IsErrorMarker(tasks[i]) })

\* The value a handler leaves behind: the nanny's queue, the handles, the
\* uuid draws, the store's namespace, the response, the fault and the calls.
Unauthorized(q, futs, n, proj) ==
    [queue |-> q, futures |-> futs, nuid |-> n, project |-> proj,
     response |-> [status |-> 401], fault |-> "HTTPError", calls |-> <<>>]

\* ----------------------------------------------------------- post, the loop
\* Lines 81-86 (DaskScheduler) and 137-146 (FireworksScheduler): the loop over
\* tasks from item i on. refuseAt is the item the backend refuses (0: none).
RECURSIVE SubmitLoop(_, _, _, _, _, _, _)
SubmitLoop(scheduler, tasks, program, refuseAt, ns, i, st) ==
    IF i > Len(tasks) \/ st.fault # "none" THEN st
    ELSE LET task == tasks[i]
         IN  IF IsErrorMarker(task)
             THEN SubmitLoop(scheduler, tasks, program, refuseAt, ns, i + 1,
                             [st EXCEPT !.error = Append(@, task.internal_error)])
             ELSE IF scheduler = "dask" /\ program \notin computers
             THEN [st EXCEPT !.fault = "KeyError"]
             ELSE IF refuseAt = i
             THEN [st EXCEPT !.fault = "SubmitError",
                             !.calls = Append(@, Call("submit", 0, [item |-> i, task |-> task], "raise"))]
             ELSE LET fut == IF scheduler = "dask" THEN DaskFuture(task, ns)
                                                   ELSE FwsId(task, ns)
                      h == Len(st.futures) + 1
                      a == add_future(st.queue, st.nuid, h)
                  IN  SubmitLoop(scheduler, tasks, program, refuseAt, ns, i + 1,
                         [st EXCEPT !.futures = Append(@, fut),
                                    !.queue = a.queue,
                                    !.nuid = @ + 1,
                                    !.ids = Append(@, a.uid),
                                    !.calls = @ \o << Call("submit", 0, [item |-> i, task |-> task], "handle"),
                                                      Call("add_future", a.uid, h, "uid") >>])

\* _unpack_tasks(data, mongod_socket, logger): the items and the program the
\* request body decodes to; the body is taken as already decoded.
unpack_tasks(data) == [tasks |-> data.tasks, program |-> data.program]

\* A post that answers with its two lists in reverse order.
Submit_reversed(scheduler, q, futs, n, header, data, refuseAt) ==
    LET u == unpack_tasks(data)
        st == SubmitLoop(scheduler, u.tasks, u.program, refuseAt, header.project, 1,
                         [queue |-> q, futures |-> futs, nuid |-> n, error |-> <<>>,
                          ids |-> <<>>,
                          calls |-> << Call("set_project", 0, header.project, "none"),
                                       Call("unpack_tasks", 0, NoValue, u) >>,
                          fault |-> "none"])
    IN  [queue |-> st.queue, futures |-> st.futures, nuid |-> st.nuid,
         project |-> header.project,
         response |-> IF st.fault = "none"
                      THEN [status |-> 200,
                            error |-> [i \in 1..Len(st.error) |->
                                          st.error[Len(st.error) + 1 - i]],
                            nanny_id |-> [i \in 1..Len(st.ids) |->
                                             st.ids[Len(st.ids) + 1 - i]],
                            success |-> TRUE]
                      ELSE [status |-> 500],
         fault |-> st.fault, calls |-> st.calls]

\* Lines 71-90 and 127-150: what post does once the caller is authenticated.
Submit(scheduler, q, futs, n, header, data, refuseAt) ==
    LET u == unpack_tasks(data)
        st == SubmitLoop(scheduler, u.tasks, u.program, refuseAt, header.project, 1,
                         [queue |-> q, futures |-> futs, nuid |-> n, error |-> <<>>,
                          ids |-> <<>>,
                          calls |-> << Call("set_project", 0, header.project, "none"),
                                       Call("unpack_tasks", 0, NoValue, u) >>,
                          fault |-> "none"])
    IN  [queue |-> st.queue, futures |-> st.futures, nuid |-> st.nuid,
         project |-> header.project,
         response |-> IF st.fault = "none"
                      THEN [status |-> 200, error |-> st.error, nanny_id |-> st.ids,
                            success |-> TRUE]
                      ELSE [status |-> 500],
         fault |-> st.fault, calls |-> st.calls]

\* A post that selects the namespace before it checks the caller.
post_project_first(scheduler, q, futs, n, proj, header, data, refuseAt) ==
    IF ~check_auth(header)
    THEN [Unauthorized(q, futs, n, proj) EXCEPT !.project = header.project]
    ELSE Submit(scheduler, q, futs, n, header, data, refuseAt)

\* DaskScheduler.post / FireworksScheduler.post, whole.
post(scheduler, q, futs, n, proj, header, data, refuseAt) ==
    IF ~check_auth(header) THEN Unauthorized(q, futs, n, proj)
    ELSE Submit(scheduler, q, futs, n, header, data, refuseAt)

\* A get that lists only the entries whose future is not done.
get_pending_only(q, errs, futs, n, proj, header) ==
    IF ~check_auth(header) THEN Unauthorized(q, futs, n, proj)
    ELSE LET p == SelectSeq(q, LAMBDA e : futs[e.h].status = "pending")
         IN  [queue |-> q, futures |-> futs, nuid |-> n, project |-> header.project,
              response |-> [status |-> 200, queue |-> [i \in 1..Len(p) |-> p[i].uid],
                            error |-> errs],
              fault |-> "none",
              calls |-> << Call("set_project", 0, header.project, "none") >>]

\* A get that runs a reconciliation pass before it reports the queue.
get_reconciling(q, errs, futs, n, proj, header) ==
    IF ~check_auth(header) THEN Unauthorized(q, futs, n, proj)
    ELSE LET u == update(q, errs, futs, header.project, [i \in 1..Len(q) |-> "True"])
         IN  [queue |-> u.queue, futures |-> futs, nuid |-> n, project |-> header.project,
              response |-> [status |-> 200,
                            queue |-> [i \in 1..Len(u.queue) |-> u.queue[i].uid],
                            error |-> errs],
              fault |-> u.fault,
              calls |-> << Call("set_project", 0, header.project, "none") >> \o u.calls]

\* Lines 92-102 and 152-162: DaskScheduler.get / FireworksScheduler.get.
get(q, errs, futs, n, proj, header) ==
    IF ~check_auth(header) THEN Unauthorized(q, futs, n, proj)
    ELSE [queue |-> q, futures |-> futs, nuid |-> n, project |-> header.project,
          response |-> [status |-> 200, queue |-> [i \in 1..Len(q) |-> q[i].uid],
                        error |-> errs],
          fault |-> "none",
          calls |-> << Call("set_project", 0, header.project, "none") >>]

\* The requests drawn. One body stands for all when the caller is refused (the
\* body is never read then); a request for a program that is not in computers
\* carries one item (every task of a batch shares the program, so the first
\* task decides); requests that create handles select the namespace "ns1",
\* while polls and the other posts select any namespace, so a handle is met
\* under its own namespace and under another one; a request never asks for
\* more handles than MaxFutures. refuseAt names the task of the batch that the
\* backend refuses, or is 0. The batches that hold two different error markers
\* are posted to a nanny that has tracked nothing yet, with no refusal.
Request(header, tasks, program, refuseAt) ==
    /\ Len(futures) + NTasks(tasks) <= MaxFutures
    /\ NTasks(tasks) > 0 => header.project = "ns1"
    /\ ~header.auth => (Len(tasks) = 1 /\ program = "psi4" /\ refuseAt = 0)
    /\ program \notin computers => Len(tasks) = 1
    /\ refuseAt > 0 => ~IsErrorMarker(tasks[refuseAt])
    /\ (\E i \in 1..Len(tasks) : IsSecondMarker(tasks[i])) =>
          /\ Len(futures) = 0
          /\ header.project = "ns1"
          /\ program = "psi4"
          /\ refuseAt = 0

DaskPost ==
    \E header \in Headers, tasks \in Batches, program \in Programs :
        \E refuseAt \in 0..Len(tasks) :
            /\ Request(header, tasks, program, refuseAt)
            /\ \E r \in { post("dask", queue, futures, nuid, project, header,
                             [tasks |-> tasks, program |-> program], refuseAt) } :
                   /\ queue' = r.queue
                   /\ futures' = r.futures
                   /\ nuid' = r.nuid
                   /\ project' = r.project
                   /\ response' = r.response
                   /\ fault' = r.fault
                   /\ calls' = r.calls
                   /\ handle_of' = Tracked(handle_of, r.calls)
            /\ op' = "dask_post"
            /\ before' = queue
            /\ UNCHANGED <<errors, consumed, pass>>

FireworksPost ==
    \E header \in Headers, tasks \in Batches, program \in Programs :
        \E refuseAt \in 0..Len(tasks) :
            /\ Request(header, tasks, program, refuseAt)
            /\ \E r \in { post("fireworks", queue, futures, nuid, project, header,
                             [tasks |-> tasks, program |-> program], refuseAt) } :
                   /\ queue' = r.queue
                   /\ futures' = r.futures
                   /\ nuid' = r.nuid
                   /\ project' = r.project
                   /\ response' = r.response
                   /\ fault' = r.fault
                   /\ calls' = r.calls
                   /\ handle_of' = Tracked(handle_of, r.calls)
            /\ op' = "fireworks_post"
            /\ before' = queue
            /\ UNCHANGED <<errors, consumed, pass>>

Get ==
    \E header \in Headers :
        /\ \E r \in { get(queue, errors, futures, nuid, project, header) } :
               /\ queue' = r.queue
               /\ futures' = r.futures
               /\ nuid' = r.nuid
               /\ project' = r.project
               /\ response' = r.response
               /\ fault' = r.fault
               /\ calls' = r.calls
        /\ op' = "get"
        /\ before' = queue
        /\ UNCHANGED <<errors, handle_of, consumed, pass>>

\* ------------------------------------------------------------ specification
Init ==
    /\ queue = <<>>
    /\ errors = <<>>
    /\ futures = <<>>
    /\ nuid = 0
    /\ project \in Projects
    /\ op = "init"
    /\ fault = "none"
    /\ calls = <<>>
    /\ before = <<>>
    /\ response = NoResponse
    /\ handle_of = <<>>
    /\ consumed = {}
    /\ pass = Idle

Next ==
    \/ DaskPost
    \/ FireworksPost
    \/ Get
    \/ Update
    \/ Complete

Spec == Init /\ [][Next]_vars

\* update is called again and again: a pass that would change something is
\* not put off for ever.
SpecFair == Init /\ [][Next]_vars /\ WF_vars(Update)

\* ------------------------------------------------- update, entry by entry
\* DaskNanny.update takes no lock and add_future, get and update share the
\* nanny's two dicts, so when update runs in a context of its own (the
\* completion-detection loop next to the request handlers) the handlers run
\* between its steps. A step is one turn of the loop of lines 27-45 or one
\* deletion of lines 47-48.

\* Lines 26-27: del_keys = [] and the iterator over self.queue.items(), which
\* remembers the size of the dict.
UpdateBegin ==
    /\ pass.pc = "idle"
    /\ pass' = [pc |-> "iter", i |-> 1, used |-> Len(queue), del_keys |-> <<>>]
    /\ op' = "update_begin"
    /\ fault' = "none"
    /\ calls' = <<>>
    /\ before' = queue
    /\ response' = NoResponse
    /\ UNCHANGED <<queue, errors, futures, nuid, project, handle_of, consumed>>

\* Lines 27-45, one turn: the iterator raises RuntimeError when the dict has
\* changed size since it was made; it ends the loop when no entry is left;
\* else the body runs for the entry it yields. A fault ends the pass.
UpdateNext ==
    /\ pass.pc = "iter"
    /\ op' = "update_next"
    /\ before' = queue
    /\ response' = NoResponse
    /\ UNCHANGED <<queue, futures, nuid, project, handle_of>>
    /\ IF Len(queue) # pass.used
       THEN /\ fault' = "RuntimeError"
            /\ pass' = Idle
            /\ calls' = <<>>
            /\ UNCHANGED <<errors, consumed>>
       ELSE IF pass.i > Len(queue)
       THEN /\ fault' = "none"
            /\ pass' = IF pass.del_keys = <<>> THEN Idle ELSE [pass EXCEPT !.pc = "delete"]
            /\ calls' = <<>>
            /\ UNCHANGED <<errors, consumed>>
       ELSE \E answer \in StoreAnswers :
               /\ ~AsksStore(queue, futures, pass.i) => answer = "True"
               /\ answer = "raise_other" => queue[pass.i].uid \in consumed
               /\ \E st \in { UpdateLoop(<< queue[pass.i] >>, futures, project, << answer >>, 1,
                                          [errors |-> errors, del_keys |-> pass.del_keys,
                                           calls |-> <<>>, fault |-> "none"]) } :
                      /\ errors' = st.errors
                      /\ calls' = st.calls
                      /\ fault' = st.fault
                      /\ consumed' = consumed \cup
                                        { st.calls[j].uid : j \in CallsOf(st.calls, "result") }
                      /\ pass' = IF st.fault # "none" THEN Idle
                                 ELSE [pass EXCEPT !.i = @ + 1, !.del_keys = st.del_keys]

\* Lines 47-48, one turn: del self.queue[key] for the next key of del_keys.
UpdateDelete ==
    /\ pass.pc = "delete"
    /\ queue' = DeleteKeys(queue, << Head(pass.del_keys) >>)
    /\ pass' = IF Len(pass.del_keys) = 1 THEN Idle
               ELSE [pass EXCEPT !.del_keys = Tail(@)]
    /\ op' = "update_delete"
    /\ fault' = "none"
    /\ calls' = <<>>
    /\ before' = queue
    /\ response' = NoResponse
    /\ UNCHANGED <<errors, futures, nuid, project, handle_of, consumed>>

NextSteps ==
    \/ DaskPost
    \/ FireworksPost
    \/ Get
    \/ Complete
    \/ UpdateBegin
    \/ UpdateNext
    \/ UpdateDelete

SpecSteps == Init /\ [][NextSteps]_vars

\* ================================================================== claims
SuccessOutcome(f) ==
    /\ f.kind = "dask"
    /\ f.status = "finished"
    /\ HasKey(f.value, "success")
    /\ f.value.success

FailureOutcome(f) ==
    /\ f.kind = "dask"
    /\ \/ f.status = "error"
       \/ /\ f.status = "finished"
          /\ HasKey(f.value, "success")
          /\ ~f.value.success

Unfinished(f) == f.kind = "dask" => f.status = "pending"

\* C1: whenever update runs over a queue holding a finished handle with a
\* success record, that pass calls add_page exactly once with that record,
\* the TrackingID is gone from the queue after it and, the store not having
\* raised, no entry for the TrackingID was added to errors.
C1_SuccessPostedOnceAndRemoved ==
    [][ op' = "update" =>
          \A i \in 1..Len(queue) :
              LET uid == queue[i].uid
                  f == futures[queue[i].h]
                  pages == CallsFor(calls', "add_page", uid)
              IN  SuccessOutcome(f) =>
                     /\ Cardinality(pages) = 1
                     /\ \A j \in pages : calls'[j].arg.data = f.value
                     /\ uid \notin Keys(queue')
                     /\ (\A j \in pages : calls'[j].res # "raise")
                           => (uid \in DOMAIN errors' => uid \in DOMAIN errors) ]_vars

\* C2: whenever update runs over a queue holding a finished handle whose
\* outcome signals failure, after that pass errors has an entry for the
\* TrackingID, the TrackingID is gone from the queue, and the pass made no
\* add_page call for it.
C2_FailureFiledAndRemoved ==
    [][ op' = "update" =>
          \A i \in 1..Len(queue) :
              LET uid == queue[i].uid
                  f == futures[queue[i].h]
              IN  FailureOutcome(f) =>
                     /\ uid \in DOMAIN errors'
                     /\ uid \notin Keys(queue')
                     /\ CallsFor(calls', "add_page", uid) = {} ]_vars

\* C3: every handle that has not reported finished is in the queue, whatever
\* posts, polls, completions and update passes have run.
C3_UnfinishedStayTracked ==
    \A h \in 1..Len(futures) :
        Unfinished(futures[h]) => \E i \in 1..Len(queue) : queue[i].h = h

\* C3 witness: an update pass has removed an entry and left a pending one.
C3_Witness ==
    /\ op = "update"
    /\ fault = "none"
    /\ Len(queue) < Len(before)
    /\ \E i \in 1..Len(queue) :
          futures[queue[i].h].kind = "dask" /\ futures[queue[i].h].status = "pending"

\* C4: after an update pass, every add_page call of the pass that the store
\* answered with False or with an exception has a diagnostic under
\* errors[TrackingID].
C4_StoreDefectFiled ==
    op = "update" =>
        \A j \in CallsOf(calls, "add_page") :
            calls[j].res \in {"False", "raise"} => calls[j].uid \in DOMAIN errors

\* C5: an update pass lets no fault escape, and every entry that was finished
\* when the pass started is out of the queue when it ends.
C5_NoFaultEscapesUpdate ==
    op = "update" =>
        /\ fault = "none"
        /\ \A i \in 1..Len(before) :
              ~Unfinished(futures[before[i].h]) => before[i].uid \notin Keys(queue)

IsPost == op \in {"dask_post", "fireworks_post"}
Range(seq) == { seq[i] : i \in 1..Len(seq) }
PositionOf(q, uid) == CHOOSE i \in 1..Len(q) : q[i].uid = uid

\* The handles whose outcome is a failure record, and those whose task raised.
FailedRecord(f) ==
    f.kind = "dask" /\ f.status = "finished" /\ HasKey(f.value, "success") /\ ~f.value.success
Raised(f) == f.kind = "dask" /\ f.status = "error"

Unpacked == calls[2].res.tasks
TaskItems(tasks) == { i \in 1..Len(tasks) : "internal_error" \notin DOMAIN tasks[i] }
MarkerItems(tasks) == { i \in 1..Len(tasks) : "internal_error" \in DOMAIN tasks[i] }

C8_MarkersNeverSubmitted ==
    (IsPost /\ fault # "HTTPError") =>
        LET submits == CallsOf(calls, "submit")
            tracks == CallsOf(calls, "add_future")
        IN  /\ \A j \in submits :
                  /\ "internal_error" \notin DOMAIN calls[j].arg.task
                  /\ calls[j].arg.item \in TaskItems(Unpacked)
            /\ \A j \in tracks :
                  "internal_error" \notin DOMAIN futures[calls[j].arg].task
            /\ Cardinality(tracks) <= Cardinality(submits)
            /\ Cardinality(submits) <= Cardinality(TaskItems(Unpacked))
            /\ fault = "none" =>
                  /\ Cardinality(submits) = Cardinality(TaskItems(Unpacked))
                  /\ Cardinality(tracks) = Cardinality(TaskItems(Unpacked))

\* C8 witness: a post of a batch holding an error marker and a task made one
\* submit call.
C8_Witness ==
    /\ IsPost
    /\ fault = "none"
    /\ MarkerItems(Unpacked) # {}
    /\ Cardinality(CallsOf(calls, "submit")) = 1

C10_RefusedTaskReported ==
    (IsPost /\ \E j \in CallsOf(calls, "submit") : calls[j].res = "raise") =>
        /\ fault = "none"
        /\ response.status = 200
        /\ Len(response.error) > Cardinality(MarkerItems(Unpacked))
        /\ Keys(queue) \ Keys(before) = Range(response.nanny_id)

\* C11: a get leaves the nanny's queue and errors as they were, retrieves no
\* outcome (no done, result call; no TrackingID newly consumed), makes no
\* add_page call and runs no update pass: the only collaborator it calls is
\* the store's set_project.
C11_PollIsReadOnly ==
    [][ op' = "get" =>
          /\ queue' = queue
          /\ errors' = errors
          /\ futures' = futures
          /\ consumed' = consumed
          /\ handle_of' = handle_of
          /\ \A j \in 1..Len(calls') : calls'[j].fn = "set_project" ]_vars

\* C11 witness: a get was answered while a finished future was tracked and
\* errors held an entry, so a pass would have had something to do.
C11_Witness ==
    /\ op = "get"
    /\ response.status = 200
    /\ DOMAIN errors # {}
    /\ \E i \in 1..Len(queue) :
          /\ futures[queue[i].h].kind = "dask"
          /\ futures[queue[i].h].status = "finished"

\* C12: the response of a get lists the TrackingIDs of the queue, each once
\* and no other, and carries errors as it is; when no outcome has been
\* retrieved yet (so no pass has removed or filed anything), it lists every
\* TrackingID add_future has ever returned and its error map is empty.
C12_PollReportsCurrentState ==
    (op = "get" /\ response.status = 200) =>
        /\ Range(response.queue) = Keys(queue)
        /\ Len(response.queue) = Len(queue)
        /\ response.error = errors
        /\ consumed = {} =>
              /\ DOMAIN handle_of \subseteq Range(response.queue)
              /\ response.error = <<>>

\* C12 witness: a get reported a tracked entry and a filed error, after a
\* pass had removed an entry from the queue.
C12_Witness ==
    /\ op = "get"
    /\ response.status = 200
    /\ Len(response.queue) > 0
    /\ DOMAIN response.error # {}
    /\ DOMAIN handle_of # Keys(queue)

\* The scenario of C13: one handle was ever created, a dask future, it is
\* tracked under id1 and it has finished with a success record.
OnlyHandleSucceeded ==
    /\ Len(futures) = 1
    /\ SuccessOutcome(futures[1])
id1 == CHOOSE uid \in DOMAIN handle_of : handle_of[uid] = 1

C14_TrackingIdsDistinct ==
    /\ [] ( /\ Cardinality(DOMAIN handle_of) = nuid
            /\ nuid = Len(futures)
            /\ Cardinality(Keys(queue)) = Len(queue) )
    /\ [][ (op' \in {"dask_post", "fireworks_post"}) =>
              /\ \A j \in CallsOf(calls', "add_future") :
                    /\ calls'[j].uid \notin Keys(queue)
                    /\ calls'[j].uid \notin DOMAIN handle_of
                    /\ \A k \in CallsOf(calls', "add_future") :
                          k # j => calls'[k].uid # calls'[j].uid
              /\ Len(queue') >= Len(queue)
              /\ \A i \in 1..Len(queue) : queue'[i] = queue[i] ]_vars

\* C14 witness: a second post has registered a handle equal in value to the
\* one tracked already, under another TrackingID.
C14_Witness ==
    /\ IsPost
    /\ fault = "none"
    /\ Len(before) = 1
    /\ Len(queue) = 2
    /\ futures[queue[1].h] = futures[queue[2].h]
    /\ queue[1].uid # queue[2].uid

\* C15: an update pass over a queue that holds a handle registered by
\* FireworksScheduler.post runs to its end, and every done() call of the
\* pass, on whichever handle, is answered with True or False.
C15_WorkflowHandleAnswersDone ==
    (op = "update" /\ \E i \in 1..Len(before) : futures[before[i].h].kind = "fws_id") =>
        /\ fault = "none"
        /\ \A j \in CallsOf(calls, "done") : calls[j].res \in {"True", "False"}
        /\ \A i \in 1..Len(before) : CallsFor(calls, "done", before[i].uid) # {}

\* C16: a post whose unpacking resolved a program that is not a known one
\* writes no success response and tracks no handle, whichever scheduler
\* handled it.
C16_UnknownKindFailsRequest ==
    (IsPost /\ fault # "HTTPError" /\ calls[2].res.program \notin computers) =>
        /\ fault # "none"
        /\ response.status # 200
        /\ queue = before
        /\ CallsOf(calls, "add_future") = {}

\* The k-th smallest position of a set of positions.
NthOf(S, k) == CHOOSE i \in S : Cardinality({ j \in S : j < i }) = k - 1

\* C17: in the response of a post that ran to its end, the k-th identifier
\* is the TrackingID add_future returned for the handle of the k-th task item
\* of the batch (the submit call for that item comes right before it, and
\* after the calls for the identifiers listed earlier), the queue has the new
\* entries in that order, and the k-th error is the message of the k-th error
\* marker of the batch.
C17_ListsFollowBatchOrder ==
    (IsPost /\ fault = "none") =>
        LET tasks == Unpacked
            ids == response.nanny_id
            errs == response.error
        IN  /\ Len(ids) = Cardinality(TaskItems(tasks))
            /\ Len(errs) = Cardinality(MarkerItems(tasks))
            /\ \A k \in 1..Len(ids) :
                  LET item == NthOf(TaskItems(tasks), k)
                  IN  /\ queue[Len(before) + k].uid = ids[k]
                      /\ \E j \in CallsFor(calls, "add_future", ids[k]) :
                            /\ calls[j - 1].fn = "submit"
                            /\ calls[j - 1].arg.item = item
                            /\ calls[j - 1].arg.task = tasks[item]
                            /\ futures[calls[j].arg].task = tasks[item]
                            /\ \A k2 \in 1..(k - 1) :
                                  \A j2 \in CallsFor(calls, "add_future", ids[k2]) : j2 < j
            /\ \A k \in 1..Len(errs) :
                  errs[k] = tasks[NthOf(MarkerItems(tasks), k)].internal_error

\* C17 witness: a post answered with two different error messages.
C17_Witness ==
    /\ IsPost
    /\ fault = "none"
    /\ Len(response.error) = 2
    /\ response.error[1] # response.error[2]

\* C18: no update pass calls result() or add_page for a TrackingID whose
\* outcome an earlier pass has retrieved already, and within one pass each
\* TrackingID gets at most one result() call and at most one add_page call.
C18_OutcomeRetrievedOnce ==
    [][ op' = "update" =>
          \A j \in CallsOf(calls', "result") \cup CallsOf(calls', "add_page") :
              /\ calls'[j].uid \notin consumed
              /\ Cardinality(CallsFor(calls', calls'[j].fn, calls'[j].uid)) = 1 ]_vars

\* C19: a get answered while an update pass is under way lists no TrackingID
\* that is a key of the error map it reports, and none for which the step of
\* the pass just before it had the store accept the record.
C19_PollNeverSeesHalfRemoved ==
    [][ (op' = "get" /\ response'.status = 200 /\ pass.pc # "idle") =>
          \A uid \in Range(response'.queue) :
              /\ uid \notin DOMAIN response'.error
              /\ ~ /\ op = "update_next"
                   /\ \E j \in CallsFor(calls, "add_page", uid) : calls[j].res = "True" ]_vars

\* C20: when add_future has added an entry since the pass made its iterator,
\* the next turn of the loop raises no fault; every handle that has not
\* finished stays tracked; and the queue loses entries only by the deletions
\* of the pass, each of a TrackingID whose outcome the pass has retrieved.
C20_TrackDuringPassIsSafe ==
    /\ [][ (op' = "update_next" /\ Len(queue) # pass.used) => fault' = "none" ]_vars
    /\ [] ( \A h \in 1..Len(futures) :
                Unfinished(futures[h]) => \E i \in 1..Len(queue) : queue[i].h = h )
    /\ [][ \A uid \in Keys(queue) \ Keys(queue') :
              op' = "update_delete" /\ uid \in consumed ]_vars

\* C21: an update pass that runs right after another update pass, nothing
\* having happened in between, leaves the queue and errors as they are, and
\* calls neither result() nor add_page.
C21_SecondPassDoesNothing ==
    [][ (op = "update" /\ op' = "update") =>
          /\ queue' = queue
          /\ errors' = errors
          /\ CallsOf(calls', "result") = {}
          /\ CallsOf(calls', "add_page") = {} ]_vars

\* C22: after every operation, no TrackingID is a key of the queue and of
\* errors at once, every key of errors is a TrackingID add_future has
\* returned, and every TrackingID that has left the queue had its outcome
\* retrieved and, when its handle failed, is a key of errors.
C22_QueueAndErrorsDisjoint ==
    /\ Keys(queue) \cap DOMAIN errors = {}
    /\ DOMAIN errors \subseteq DOMAIN handle_of
    /\ \A uid \in DOMAIN handle_of \ Keys(queue) :
          /\ uid \in consumed
          /\ FailureOutcome(futures[handle_of[uid]]) => uid \in DOMAIN errors

\* C23: a TrackingID becomes a key of the queue only in a post, by an
\* add_future call that returns it, and it was never returned before (so a
\* TrackingID that has left the queue does not come back); it leaves the
\* queue only in an update pass whose done() call on its handle answered
\* True, the handle being finished.
C23_LifecycleMonotone ==
    [][ /\ \A uid \in Keys(queue') \ Keys(queue) :
              /\ op' \in {"dask_post", "fireworks_post"}
              /\ CallsFor(calls', "add_future", uid) # {}
              /\ uid \notin DOMAIN handle_of
        /\ \A uid \in Keys(queue) \ Keys(queue') :
              /\ op' = "update"
              /\ \E j \in CallsFor(calls', "done", uid) : calls'[j].res = "True"
              /\ ~Unfinished(futures[handle_of[uid]]) ]_vars

\* C23 witness: a post has added an entry to the queue after an update pass
\* had removed another one.
C23_Witness ==
    /\ IsPost
    /\ fault = "none"
    /\ Len(queue) > Len(before)
    /\ DOMAIN handle_of \ Keys(queue) # {}

\* C24: no operation removes a key of errors or changes the message filed
\* under it.
C24_ErrorsAppendOnly ==
    [][ \A uid \in DOMAIN errors :
           /\ uid \in DOMAIN errors'
           /\ errors'[uid] = errors[uid] ]_vars

\* C25: every add_page call of an update pass is made while the store's
\* namespace is the one selected by the post that created the handle.
C25_StoredInSubmitNamespace ==
    op = "update" =>
        \A j \in CallsOf(calls, "add_page") :
            calls[j].arg.ns = futures[handle_of[calls[j].uid]].ns

\* C26: every result() call of an update pass comes right after the done()
\* call of the same pass on the same handle, which answered True, and the
\* handle is a finished one; a handle whose done() answered False gets no
\* result() call in that pass.
C26_ResultOnlyAfterDone ==
    op = "update" =>
        /\ \A j \in CallsOf(calls, "result") :
              /\ j > 1
              /\ calls[j - 1].fn = "done"
              /\ calls[j - 1].uid = calls[j].uid
              /\ calls[j - 1].res = "True"
              /\ futures[handle_of[calls[j].uid]].status # "pending"
        /\ \A k \in CallsOf(calls, "done") :
              calls[k].res # "True" => CallsFor(calls, "result", calls[k].uid) = {}

\* C26 witness: a pass retrieved the outcome of a finished handle and left a
\* pending one, whose done() answered False, alone.
C26_Witness ==
    /\ op = "update"
    /\ CallsOf(calls, "result") # {}
    /\ \E k \in CallsOf(calls, "done") :
          /\ calls[k].res = "False"
          /\ futures[handle_of[calls[k].uid]].status = "pending"

\* The handle h is tracked / the TrackingID it is tracked under was consumed.
TrackedHandle(h) == \E i \in 1..Len(queue) : queue[i].h = h
ConsumedHandle(h) == \E uid \in consumed : handle_of[uid] = h

\* C27: with update run again and again, every handle that is finished while
\* tracked is eventually out of the queue, its outcome having been retrieved
\* (and so handed to add_page or filed in errors).
C27_FinishedEventuallyRemoved ==
    \A h \in 1..MaxFutures :
        (h <= Len(futures) /\ ~Unfinished(futures[h]) /\ TrackedHandle(h))
            ~> (~TrackedHandle(h) /\ ConsumedHandle(h))

====
